---------------------------- MODULE Spec2Model ----------------------------
(***************************************************************************)
(* Polling-and-broadcast pipeline of the MikroTik monitoring dashboard:    *)
(* the real-time Broadcast Hub (server/routes.ts), the Connection Manager  *)
(* (server/services/mikrotik.ts), the scheduler routes (server/routes.ts)  *)
(* and the IDS Adapter (server/services/ids/model_loader.ts).              *)
(***************************************************************************)
EXTENDS Integers, Sequences, FiniteSets, TLC

(***************************************************************************)
(* Bounds of the model.                                                    *)
(***************************************************************************)
\* number of broadcastToTopic calls explored in the hub specification
MaxBroadcasts == 1
\* number of analyzeTraffic calls explored
MaxAnalyses == 2
\* number of MikroTikConnection objects constructed
MaxHandles == 3
\* number of disconnectFromDevice calls suspended at their await, per device
MaxPendingDisconnects == 2
\* number of setInterval timers one MikroTikConnection has running
MaxTimers == 2
\* number of MikroTikConnection objects a direct user of the class constructs
MaxObjects == 2
\* number of updateDevice calls applied to one stored device
MaxUpdates == 1
\* number of schedulerService.initialize() calls (runs of registerRoutes)
MaxInitCalls == 2
\* number of createFirewallRule calls explored
MaxRules == 2

(***************************************************************************)
(* Universe of values.                                                     *)
(***************************************************************************)
\* WebSocket objects handed to wss.on('connection')
Sockets == {"ws1", "ws2"}
\* topic strings used by the publishers of the repository
Topics == {"all_alerts", "device_alerts_1"}
\* stands for a JSON value in the topic field that is not a string (a number)
NotAString == "<number>"
\* typeof data.topic === 'string'
IsString(v) == v # NotAString
\* ws.readyState values; NEW is a socket that has not connected yet
ReadyStates == {"NEW", "OPEN", "CLOSING", "CLOSED"}
\* what a client can put on the wire
ClientMessages ==
    [json : {TRUE}, action : {"subscribe", "unsubscribe"},
     topic : Topics \cup {NotAString}]
    \cup {[json |-> TRUE, action |-> "ping", topic |-> "all_alerts"],
          [json |-> FALSE, action |-> "", topic |-> ""]}
\* no 'message' event handled yet
NoMessage == [ws |-> "", m |-> [json |-> FALSE, action |-> "", topic |-> ""],
              readyState |-> "NEW"]
ConnectionEstablished == [type |-> "CONNECTION_ESTABLISHED", id |-> 0]
\* z.number().min(5000) of POST /scheduler/polling-interval
PollingFloor == 5000
\* z.number().min(1) of POST /scheduler/max-concurrent-devices
MinConcurrent == 1
\* a JSON body field: a number, or a value that is not a number
NotANumber == [isNumber |-> FALSE, value |-> 0]
Num(v) == [isNumber |-> TRUE, value |-> v]
\* device ids of the Device Registry
Devices == {1, 2}
\* connections.get(deviceId) === undefined
NoHandle == 0
\* source/destination address and port of a traffic sample
Flows == {"f1", "f2"}
\* TrafficData values handed to analyzeTraffic
Samples == [deviceId : Devices, flow : Flows]
\* what predict.py writes to standard output: text that JSON.parse rejects,
\* or {is_anomaly, probability} (probability in percent)
Garbage == [valid |-> FALSE, is_anomaly |-> FALSE, probability |-> 0]
PredictorOutputs ==
    {Garbage,
     [valid |-> TRUE, is_anomaly |-> TRUE, probability |-> 82],
     [valid |-> TRUE, is_anomaly |-> FALSE, probability |-> 10]}
\* exit codes of the predictor process
ExitCodes == {0, 1}
\* `device_alerts_${trafficData.deviceId}`
DeviceAlertsTopic(d) == IF d = 1 THEN "device_alerts_1" ELSE "device_alerts_2"
\* a field that the JSON body of a request does not have
Missing == "<missing>"
\* stands for a JSON value in the port field that is not a number (a string)
NotAPort == "<string>"
\* typeof v === 'number'
IsNumber(v) == v \notin {Missing, NotAPort}
\* request bodies of POST /devices and PUT /devices/:id: name stands for the
\* four required text columns (name, address, username, password)
DeviceBodies == [name : {Missing, NotAString, "Router-2"},
                 port : {Missing, NotAPort, "8729"}]
\* devices.get(id) === undefined
NoDevice == [name |-> Missing, port |-> Missing, updatedAt |-> 0]
\* router-assigned rule ids
RuleIds == {"*1", "*2"}
\* the value a storage method returns for a row it did not find
Undefined == "<undefined>"
StorageCall(method, id, result) == [method |-> method, id |-> id, result |-> result]
\* the sample device the MemStorage constructor creates
SampleDevice == [name |-> "Router-1", port |-> "8728"]
NoCall == [sample |-> [deviceId |-> 0, flow |-> ""], exitCode |-> 0, output |-> Garbage,
           saveOk |-> FALSE, alertOk |-> FALSE, histOk |-> FALSE, returned |-> "none"]

VARIABLES
    \* ---- Broadcast Hub (routes.ts 1716-1772) ----
    clients,      \* Map<WebSocket, Set<string>> in insertion order: Seq of [ws, topics]
    readyState,   \* readyState of every socket
    inbox,        \* per socket, the frames client.send / ws.send put on the wire
    sent,         \* topics of the broadcastToTopic calls made so far, in order
    requested,    \* per socket and topic, the last well-formed request handled
    repeated      \* the kind of the last request that repeated the one before it

VARIABLES
    \* ---- Connection Manager (mikrotik.ts) ----
    handles,            \* every MikroTikConnection constructed: Seq of its fields
    connections,        \* Map<number, MikroTikConnection>: device id -> handle
    pendingConnect,     \* handles whose connectToDevice call waits at line 175
    pendingDisconnect,  \* per device, disconnectFromDevice calls waiting at line 187
    called,             \* per handle, the last of connect() / disconnect() called on it
    lastOp              \* the last operation: its target, result and emitted events

VARIABLES
    \* ---- Scheduler and its routes (routes.ts 592-631) ----
    pollingInterval,        \* the scheduler's cycle period in ms
    maxConcurrentDevices,   \* the scheduler's bound on polls in flight
    pollState,              \* per device: "idle", "queued" or "inflight"
    lastOutcome,            \* per device: outcome of its last poll
    intervalCalls,          \* arguments that reached schedulerService.setPollingInterval
    lastResponse,           \* route, body value and HTTP status of the last scheduler request
    pollTimers,             \* recurring timers that drive the polling cycle
    initCalls               \* schedulerService.initialize() calls made

VARIABLES
    \* ---- IDS Adapter (model_loader.ts) ----
    loaderPc,          \* ModelLoader.initialize: "import", "testing" or "done"
    modelReady,        \* ModelLoader.modelReady
    idsConstructed,    \* new IDSService() has run
    isInitialized,     \* IDSService.isInitialized
    broadcastExposed,  \* global.broadcastToTopic is a function (routes.ts 1775)
    features,          \* rows of networkTrafficFeatures
    alerts,            \* rows of alerts
    history,           \* rows of idsDetectionHistory
    nAnalyses,         \* analyzeTraffic calls made
    lastCall           \* inputs, environment outcomes and return value of the last call

VARIABLES
    \* ---- Device Registry (storage.ts, routes.ts 92-150) ----
    devices,           \* MemStorage.devices: device id -> Device or NoDevice
    deviceIdCounter,   \* MemStorage.deviceIdCounter
    firewallRules,     \* MemStorage.firewallRules: the set of stored rules
    lastHttp,          \* route, id, body and status of the last device request
    firewallRuleIdCounter, \* MemStorage.firewallRuleIdCounter
    returned           \* method, id argument and result of the last direct storage call

VARIABLES
    \* ---- broadcastToTopic as the event loop runs it (routes.ts 1764-1772) ----
    fanOut             \* the running call: its topic, the position of its for-of
                       \* loop and the recipients when it started

VARIABLES
    \* ---- the 'message' handler as a socket's owner sees it (routes.ts 1724-1746) ----
    handled            \* socket and message of the last 'message' event handled

VARIABLES
    \* ---- getDeviceArpTable (the ARP reader of the services directory) ----
    arp                \* the call in progress: its position, its device, the
                       \* handle registered when it started, the handle it opened

hubVars == <<clients, readyState, inbox, sent, requested, repeated>>
idsVars == <<loaderPc, modelReady, idsConstructed, isInitialized, broadcastExposed,
             features, alerts, history, nAnalyses, lastCall>>
connVars == <<handles, connections, pendingConnect, pendingDisconnect, called, lastOp>>
schedVars == <<pollingInterval, maxConcurrentDevices, pollState, lastOutcome,
               intervalCalls, lastResponse, pollTimers, initCalls>>
storageVars == <<devices, deviceIdCounter, firewallRules, lastHttp,
                 firewallRuleIdCounter, returned>>
loopVars == <<fanOut>>
socketVars == <<handled>>
arpVars == <<arp>>
vars == <<hubVars, connVars, schedVars, idsVars, storageVars, loopVars, socketVars,
          arpVars>>
\* what an action of one component leaves alone
notHub == <<connVars, schedVars, idsVars, storageVars, loopVars, socketVars,
            arpVars>>
notConn == <<hubVars, schedVars, idsVars, storageVars, loopVars, socketVars,
            arpVars>>
notSched == <<hubVars, connVars, idsVars, storageVars, loopVars, socketVars,
            arpVars>>
\* the IDS Adapter publishes through the hub
notIds == <<connVars, schedVars, storageVars, loopVars, socketVars, arpVars,
            clients, readyState, requested, repeated>>
notStorage == <<hubVars, connVars, schedVars, idsVars, loopVars, socketVars,
            arpVars>>
notLoop == <<connVars, schedVars, idsVars, storageVars, socketVars, arpVars>>
notSocket == <<connVars, schedVars, idsVars, storageVars, loopVars, arpVars>>
\* getDeviceArpTable works on the Connection Manager
notArp == <<hubVars, schedVars, idsVars, storageVars, loopVars, socketVars>>

(***************************************************************************)
(* Broadcast Hub                                                           *)
(***************************************************************************)
\* index of ws in the clients map, 0 when absent (clients.get(ws) undefined)
IndexOf(cl, ws) ==
    IF \E i \in 1..Len(cl) : cl[i].ws = ws
    THEN CHOOSE i \in 1..Len(cl) : cl[i].ws = ws
    ELSE 0

HasClient(cl, ws) == IndexOf(cl, ws) # 0

\* clients.get(ws): the topic set, {} when absent (callers test HasClient first)
TopicsOf(cl, ws) == IF HasClient(cl, ws) THEN cl[IndexOf(cl, ws)].topics ELSE {}

\* clients.set(ws, new Set()) keeps the position of an existing key
MapSet(cl, ws, topics) ==
    IF HasClient(cl, ws)
    THEN [cl EXCEPT ![IndexOf(cl, ws)].topics = topics]
    ELSE Append(cl, [ws |-> ws, topics |-> topics])

\* clients.delete(ws)
MapDelete(cl, ws) == SelectSeq(cl, LAMBDA e : e.ws # ws)

\* topics.add(topic)
SetAddFlip(topics, t) == IF t \in topics THEN topics \ {t} ELSE topics \cup {t}
SetAdd(topics, t) == topics \cup {t}

\* topics.delete(topic)
SetDeleteNothing(topics, t) == topics
SetDelete(topics, t) == topics \ {t}

\* the condition of line 1768
SendsToAnyState(rs, topics, topic) == topic \in topics
SendsTo(rs, topics, topic) == rs = "OPEN" /\ topic \in topics

\* the for-of loop of broadcastToTopic over clients.entries()
RECURSIVE SendLoop(_, _, _, _, _, _)
SendLoop(cl, i, rs, ib, topic, frame) ==
    IF i > Len(cl) THEN ib
    ELSE LET ws == cl[i].ws
             ib2 == IF SendsTo(rs[ws], cl[i].topics, topic)
                    THEN [ib EXCEPT ![ws] = Append(@, frame)]
                    ELSE ib
         IN SendLoop(cl, i + 1, rs, ib2, topic, frame)

\* broadcastToTopic(topic, data): the inboxes after the call
BroadcastToTopic(cl, rs, ib, topic, frame) == SendLoop(cl, 1, rs, ib, topic, frame)

\* wss.on('connection', ws)
OnConnection(ws) ==
    /\ readyState[ws] = "NEW"
    /\ readyState' = [readyState EXCEPT ![ws] = "OPEN"]
    /\ clients' = MapSet(clients, ws, {})
    /\ inbox' = [inbox EXCEPT ![ws] = Append(@, ConnectionEstablished)]
    /\ UNCHANGED <<sent, requested, repeated>>
    /\ UNCHANGED notHub

\* data.action === 'subscribe' && typeof data.topic === 'string' (line 1727)
IsSubscribeAnyTopic(m) == m.action = "subscribe"
IsSubscribe(m) == m.action = "subscribe" /\ IsString(m.topic)

\* const topics = clients.get(ws); if (topics) (lines 1729-1730, 1736-1737)
HasTopicsAlways(cl, ws) == TRUE
HasTopics(cl, ws) == HasClient(cl, ws)

\* the topic sets after ws.on('message') handled m
AfterMessage(cl, ws, m) ==
    IF ~m.json THEN cl                       \* JSON.parse throws, caught
    ELSE IF IsSubscribe(m)
    THEN IF HasTopics(cl, ws)
         THEN MapSet(cl, ws, SetAdd(TopicsOf(cl, ws), m.topic))
         ELSE cl
    ELSE IF m.action = "unsubscribe" /\ IsString(m.topic)
    THEN IF HasTopics(cl, ws)
         THEN MapSet(cl, ws, SetDelete(TopicsOf(cl, ws), m.topic))
         ELSE cl
    ELSE cl

\* ws.on('message', message): the transport emits messages until it closes
MessageHandled(ws, m) ==
    /\ clients' = AfterMessage(clients, ws, m)
    /\ requested' =
         IF m.json /\ IsString(m.topic) /\ m.action \in {"subscribe", "unsubscribe"}
         THEN [requested EXCEPT ![ws][m.topic] = m.action]
         ELSE requested
    /\ repeated' =
         IF m.json /\ IsString(m.topic) /\ m.action \in {"subscribe", "unsubscribe"}
            /\ requested[ws][m.topic] = m.action
         THEN m.action
         ELSE repeated
    /\ UNCHANGED <<readyState, inbox, sent>>

OnMessage(ws, m) ==
    /\ readyState[ws] \in {"OPEN", "CLOSING"}
    /\ MessageHandled(ws, m)
    /\ UNCHANGED notHub

\* the handler of line 1724 stays registered on the socket object: it runs
\* for every 'message' event the socket emits, one that follows 'close'
\* included
OnMessageEvent(ws, m) ==
    /\ readyState[ws] # "NEW"
    /\ MessageHandled(ws, m)
    /\ handled' = [ws |-> ws, m |-> m, readyState |-> readyState[ws]]
    /\ UNCHANGED notSocket

\* the transport starts its closing handshake; no handler of routes.ts runs
TransportClosing(ws) ==
    /\ readyState[ws] = "OPEN"
    /\ readyState' = [readyState EXCEPT ![ws] = "CLOSING"]
    /\ UNCHANGED <<clients, inbox, sent, requested, repeated>>
    /\ UNCHANGED notHub

\* ws.on('close'): the transport is CLOSED when the handler runs
OnCloseKeep(ws) ==
    /\ readyState[ws] \in {"OPEN", "CLOSING"}
    /\ readyState' = [readyState EXCEPT ![ws] = "CLOSED"]
    /\ UNCHANGED <<clients, inbox, sent, requested, repeated>>
    /\ UNCHANGED notHub

OnClose(ws) ==
    /\ readyState[ws] \in {"OPEN", "CLOSING"}
    /\ readyState' = [readyState EXCEPT ![ws] = "CLOSED"]
    /\ clients' = MapDelete(clients, ws)
    /\ UNCHANGED <<inbox, sent, requested, repeated>>
    /\ UNCHANGED notHub

\* a publisher calls broadcastToTopic(topic, data)
Broadcast(topic) ==
    /\ Len(sent) < MaxBroadcasts
    /\ sent' = Append(sent, topic)
    /\ inbox' = BroadcastToTopic(clients, readyState, inbox, topic,
                                 [type |-> topic, id |-> Len(sent) + 1])
    /\ UNCHANGED <<clients, readyState, requested, repeated>>
    /\ UNCHANGED notHub

HubStart ==
    /\ clients = <<>>
    /\ readyState = [ws \in Sockets |-> "NEW"]
    /\ inbox = [ws \in Sockets |-> <<>>]
    /\ sent = <<>>
    /\ requested = [ws \in Sockets |-> [t \in Topics |-> "none"]]
    /\ repeated = "none"

SocketNext ==
    \/ \E ws \in Sockets : OnConnection(ws)
    \/ \E ws \in Sockets, m \in ClientMessages : OnMessageEvent(ws, m)
    \/ \E ws \in Sockets : TransportClosing(ws)
    \/ \E ws \in Sockets : OnClose(ws)

HubNext ==
    \/ \E ws \in Sockets : OnConnection(ws)
    \/ \E ws \in Sockets, m \in ClientMessages : OnMessage(ws, m)
    \/ \E ws \in Sockets : TransportClosing(ws)
    \/ \E ws \in Sockets : OnClose(ws)
    \/ \E t \in Topics : Broadcast(t)

(***************************************************************************)
(* broadcastToTopic step by step: the for-of loop of lines 1767-1771 has   *)
(* no await, so the event loop runs no other handler until it returns.     *)
(***************************************************************************)
NoFanOut == [active |-> FALSE, topic |-> "", next |-> 0, start |-> {}]

\* the sockets line 1768 accepts for the topic
Recipients(cl, rs, topic) ==
    {cl[i].ws : i \in {j \in 1..Len(cl) : SendsTo(rs[cl[j].ws], cl[j].topics, topic)}}

\* the event loop may start a handler: no broadcastToTopic call is running
EventLoopFreeAlways(f) == TRUE
EventLoopFree(f) == ~f.active

\* a publisher calls broadcastToTopic(topic, data): line 1765
FanOutStart(topic) ==
    /\ EventLoopFree(fanOut)
    /\ ~fanOut.active
    /\ Len(sent) < MaxBroadcasts
    /\ sent' = Append(sent, topic)
    /\ fanOut' = [active |-> TRUE, topic |-> topic, next |-> 1,
                  start |-> Recipients(clients, readyState, topic)]
    /\ UNCHANGED <<clients, readyState, inbox, requested, repeated>>
    /\ UNCHANGED notLoop

\* one iteration of the for-of loop over clients.entries(): lines 1767-1771
FanOutStep ==
    /\ fanOut.active
    /\ fanOut.next <= Len(clients)
    /\ LET e == clients[fanOut.next]
       IN inbox' = IF SendsTo(readyState[e.ws], e.topics, fanOut.topic)
                   THEN [inbox EXCEPT ![e.ws] =
                            Append(@, [type |-> fanOut.topic, id |-> Len(sent)])]
                   ELSE inbox
    /\ fanOut' = [fanOut EXCEPT !.next = @ + 1]
    /\ UNCHANGED <<clients, readyState, sent, requested, repeated>>
    /\ UNCHANGED notLoop

\* the iterator is exhausted and broadcastToTopic returns: line 1772
FanOutReturn ==
    /\ fanOut.active
    /\ fanOut.next > Len(clients)
    /\ fanOut' = [fanOut EXCEPT !.active = FALSE]
    /\ UNCHANGED hubVars
    /\ UNCHANGED notLoop

\* the handlers of the hub as the event loop starts them
LoopOnConnection(ws) == EventLoopFree(fanOut) /\ OnConnection(ws)

LoopOnMessage(ws, m) == EventLoopFree(fanOut) /\ OnMessage(ws, m)

LoopTransportClosing(ws) == EventLoopFree(fanOut) /\ TransportClosing(ws)

LoopOnClose(ws) == EventLoopFree(fanOut) /\ OnClose(ws)

FanOutNext ==
    \/ \E t \in Topics : FanOutStart(t)
    \/ FanOutStep
    \/ FanOutReturn
    \/ \E ws \in Sockets : LoopOnConnection(ws)
    \/ \E ws \in Sockets, m \in ClientMessages : LoopOnMessage(ws, m)
    \/ \E ws \in Sockets : LoopTransportClosing(ws)
    \/ \E ws \in Sockets : LoopOnClose(ws)

(***************************************************************************)
(* Connection Manager                                                      *)
(***************************************************************************)
\* new MikroTikConnection(device): lines 11-22
NewConnection(d) ==
    [deviceId |-> d, isConnected |-> FALSE, intervalId |-> FALSE, timers |-> 0]

\* MikroTikConnection.startUpdates(): a new timer; intervalId names the latest
StartUpdates(h) == [h EXCEPT !.intervalId = TRUE, !.timers = @ + 1]

\* MikroTikConnection.connect(): the handle after the call (it returns true)
Connect(h) == StartUpdates([h EXCEPT !.isConnected = TRUE])

\* MikroTikConnection.disconnect(): the handle after the call
Disconnect(h) ==
    [h EXCEPT !.timers = IF h.intervalId THEN @ - 1 ELSE @,
              !.intervalId = FALSE,
              !.isConnected = FALSE]

\* this.emit(event, { deviceId }) on handle h
Emit(h, event) == [handle |-> h, event |-> event]

\* what an operation leaves behind for its caller and the subscribers
Op(op, id, result, events) == [op |-> op, id |-> id, result |-> result, events |-> events]

NoOp == Op("none", 0, "none", <<>>)

\* mikrotikService.connectToDevice(device), up to its await at line 175
ConnectToDeviceCall(d) ==
    /\ connections[d] = NoHandle                 \* else: return true at line 170
    /\ Len(handles) < MaxHandles
    /\ handles' = Append(handles, Connect(NewConnection(d)))
    /\ pendingConnect' = pendingConnect \cup {Len(handles) + 1}
    /\ called' = Append(called, "connect")
    /\ lastOp' = Op("connectToDevice", d, "pending",
                    <<Emit(Len(handles) + 1, "connected")>>)
    /\ UNCHANGED <<connections, pendingDisconnect>>
    /\ UNCHANGED notConn

\* connectToDevice resumes after the await: lines 177-181
ConnectToDeviceResume(h) ==
    /\ h \in pendingConnect
    /\ pendingConnect' = pendingConnect \ {h}
    /\ connections' = [connections EXCEPT ![handles[h].deviceId] = h]
    /\ lastOp' = Op("connectToDevice", handles[h].deviceId, "true", <<>>)
    /\ UNCHANGED <<handles, pendingDisconnect, called>>
    /\ UNCHANGED notConn

\* mikrotikService.disconnectFromDevice(deviceId), up to its await at line 187
DisconnectFromDeviceCall(d) ==
    /\ connections[d] # NoHandle
    /\ pendingDisconnect[d] < MaxPendingDisconnects
    /\ handles' = [handles EXCEPT ![connections[d]] = Disconnect(@)]
    /\ pendingDisconnect' = [pendingDisconnect EXCEPT ![d] = @ + 1]
    /\ called' = [called EXCEPT ![connections[d]] = "disconnect"]
    /\ lastOp' = Op("disconnectFromDevice", d, "pending",
                    <<Emit(connections[d], "disconnected")>>)
    /\ UNCHANGED <<connections, pendingConnect>>
    /\ UNCHANGED notConn

\* disconnectFromDevice resumes after the await: line 188
DisconnectFromDeviceResume(d) ==
    /\ pendingDisconnect[d] > 0
    /\ pendingDisconnect' = [pendingDisconnect EXCEPT ![d] = @ - 1]
    /\ connections' = [connections EXCEPT ![d] = NoHandle]
    /\ lastOp' = Op("disconnectFromDevice", d, "returned", <<>>)
    /\ UNCHANGED <<handles, pendingConnect, called>>
    /\ UNCHANGED notConn

\* the callback of setInterval (lines 64-69) emits rulesUpdate
TimerEmitsAlways(h) == TRUE
TimerEmits(h) == h.isConnected

\* the handle after the callback of setInterval ran: no field is assigned
AfterTimerReconnects(h) == [h EXCEPT !.isConnected = TRUE]
AfterTimer(h) == h

\* one of the handle's timers fires
TimerFires(h) ==
    /\ h \in 1..Len(handles)
    /\ handles[h].timers > 0
    /\ handles' = [handles EXCEPT ![h] = AfterTimer(@)]
    /\ lastOp' = Op("timer", h, "none",
                    IF TimerEmits(handles[h]) THEN <<Emit(h, "rulesUpdate")>> ELSE <<>>)
    /\ UNCHANGED <<connections, pendingConnect, pendingDisconnect, called>>
    /\ UNCHANGED notConn

\* MikroTikConnection.getFirewallRules(): "throws" or the rule list
ConnectionGetFirewallRulesAlways(h) == "rules"
ConnectionGetFirewallRules(h) == IF ~h.isConnected THEN "throws" ELSE "rules"

\* mikrotikService.getFirewallRules(deviceId)
GetFirewallRules(conns, hs, d) ==
    IF conns[d] = NoHandle THEN "throws" ELSE ConnectionGetFirewallRules(hs[conns[d]])

\* a caller asks the service for the rules of device d
ServiceGetFirewallRules(d) ==
    /\ lastOp' = Op("service.getFirewallRules", d,
                    GetFirewallRules(connections, handles, d), <<>>)
    /\ UNCHANGED <<handles, connections, pendingConnect, pendingDisconnect, called>>
    /\ UNCHANGED notConn

\* a holder of the handle (getConnection, getAllConnections) asks it for the rules
CallGetFirewallRules(h) ==
    /\ h \in 1..Len(handles)
    /\ lastOp' = Op("getFirewallRules", h, ConnectionGetFirewallRules(handles[h]), <<>>)
    /\ UNCHANGED <<handles, connections, pendingConnect, pendingDisconnect, called>>
    /\ UNCHANGED notConn

\* new MikroTikConnection(device) by a user of the class
NewHandle(d) ==
    /\ Len(handles) < MaxObjects
    /\ handles' = Append(handles, NewConnection(d))
    /\ called' = Append(called, "new")
    /\ lastOp' = Op("new", Len(handles) + 1, "none", <<>>)
    /\ UNCHANGED <<connections, pendingConnect, pendingDisconnect>>
    /\ UNCHANGED notConn

\* connect() when a 'connected' listener throws: the catch block of lines 35-40
ConnectFails(h) == [StartUpdates(h) EXCEPT !.isConnected = FALSE]

\* handle.connect(); ok is FALSE when a listener of 'connected' throws
CallConnect(h, ok) ==
    /\ h \in 1..Len(handles)
    /\ handles[h].timers < MaxTimers
    /\ handles' = [handles EXCEPT ![h] = IF ok THEN Connect(@) ELSE ConnectFails(@)]
    /\ called' = [called EXCEPT ![h] = IF ok THEN "connect" ELSE "connectFailed"]
    /\ lastOp' = IF ok
                 THEN Op("connect", h, "true", <<Emit(h, "connected")>>)
                 ELSE Op("connect", h, "false",
                         <<Emit(h, "connected"), Emit(h, "error")>>)
    /\ UNCHANGED <<connections, pendingConnect, pendingDisconnect>>
    /\ UNCHANGED notConn

\* handle.disconnect()
CallDisconnect(h) ==
    /\ h \in 1..Len(handles)
    /\ handles' = [handles EXCEPT ![h] = Disconnect(@)]
    /\ called' = [called EXCEPT ![h] = "disconnect"]
    /\ lastOp' = Op("disconnect", h, "returned", <<Emit(h, "disconnected")>>)
    /\ UNCHANGED <<connections, pendingConnect, pendingDisconnect>>
    /\ UNCHANGED notConn

(***************************************************************************)
(* getDeviceArpTable(deviceId): connect, read the ARP entries, disconnect   *)
(***************************************************************************)
ArpCall(pc, d, before, opened, result) ==
    [pc |-> pc, deviceId |-> d, before |-> before, opened |-> opened, result |-> result]

\* no call of getDeviceArpTable made yet
NoArp == ArpCall("idle", 0, NoHandle, NoHandle, "none")

\* mikrotikService.getArpEntries(deviceId): what the await can give. A getter
\* of the Connection Manager fails when the device has no connected handle;
\* with one, the read returns the entries or fails on the wire
GetArpEntries(conns, hs, d) ==
    IF conns[d] = NoHandle THEN {"throws"}
    ELSE IF ~hs[conns[d]].isConnected THEN {"throws"}
    ELSE {"entries", "throws"}

\* getDeviceArpTable(deviceId) up to the await of line 17: connectToDevice
\* returns true at once when the device has a handle, or constructs a
\* handle and calls connect() on it
GetDeviceArpTableCall(d) ==
    /\ arp.pc \in {"idle", "returned"}
    /\ IF connections[d] # NoHandle
       THEN /\ arp' = ArpCall("connected", d, connections[d], NoHandle, "none")
            /\ lastOp' = Op("getDeviceArpTable", d, "pending", <<>>)
            /\ UNCHANGED <<handles, called>>
       ELSE /\ Len(handles) < MaxHandles
            /\ handles' = Append(handles, Connect(NewConnection(d)))
            /\ called' = Append(called, "connect")
            /\ arp' = ArpCall("connecting", d, NoHandle, Len(handles) + 1, "none")
            /\ lastOp' = Op("getDeviceArpTable", d, "pending",
                            <<Emit(Len(handles) + 1, "connected")>>)
    /\ UNCHANGED <<connections, pendingConnect, pendingDisconnect>>
    /\ UNCHANGED notArp

\* connectToDevice resumes and registers the handle; getDeviceArpTable
\* resumes with connected = true and calls getArpEntries (lines 17-25)
GetDeviceArpTableConnected ==
    /\ arp.pc = "connecting"
    /\ connections' = [connections EXCEPT ![arp.deviceId] = arp.opened]
    /\ arp' = [arp EXCEPT !.pc = "connected"]
    /\ lastOp' = Op("getDeviceArpTable", arp.deviceId, "pending", <<>>)
    /\ UNCHANGED <<handles, pendingConnect, pendingDisconnect, called>>
    /\ UNCHANGED notArp

\* the await of line 25 ends. When it throws, the catch block returns []
\* (lines 33-36); otherwise disconnectFromDevice runs up to its await
GetDeviceArpTableFetched(outcome) ==
    /\ arp.pc = "connected"
    /\ outcome \in GetArpEntries(connections, handles, arp.deviceId)
    /\ IF outcome = "throws"
       THEN /\ arp' = [arp EXCEPT !.pc = "returned", !.result = "[]"]
            /\ lastOp' = Op("getDeviceArpTable", arp.deviceId, "[]", <<>>)
            /\ UNCHANGED <<handles, called>>
       ELSE /\ handles' = [handles EXCEPT ![connections[arp.deviceId]] = Disconnect(@)]
            /\ called' = [called EXCEPT ![connections[arp.deviceId]] = "disconnect"]
            /\ arp' = [arp EXCEPT !.pc = "disconnecting"]
            /\ lastOp' = Op("getDeviceArpTable", arp.deviceId, "pending",
                            <<Emit(connections[arp.deviceId], "disconnected")>>)
    /\ UNCHANGED <<connections, pendingConnect, pendingDisconnect>>
    /\ UNCHANGED notArp

\* disconnectFromDevice resumes (line 188 of mikrotik.ts) and
\* getDeviceArpTable returns the entries (line 32)
GetDeviceArpTableDisconnected ==
    /\ arp.pc = "disconnecting"
    /\ connections' = [connections EXCEPT ![arp.deviceId] = NoHandle]
    /\ arp' = [arp EXCEPT !.pc = "returned", !.result = "entries"]
    /\ lastOp' = Op("getDeviceArpTable", arp.deviceId, "entries", <<>>)
    /\ UNCHANGED <<handles, pendingConnect, pendingDisconnect, called>>
    /\ UNCHANGED notArp

\* a monitor connects devices while ARP tables are read
ArpNext ==
    \/ \E d \in Devices : ConnectToDeviceCall(d)
    \/ \E h \in 1..MaxHandles : ConnectToDeviceResume(h)
    \/ \E d \in Devices : GetDeviceArpTableCall(d)
    \/ GetDeviceArpTableConnected
    \/ \E o \in {"entries", "throws"} : GetDeviceArpTableFetched(o)
    \/ GetDeviceArpTableDisconnected

ConnStart ==
    /\ handles = <<>>
    /\ connections = [d \in Devices |-> NoHandle]
    /\ pendingConnect = {}
    /\ pendingDisconnect = [d \in Devices |-> 0]
    /\ called = <<>>
    /\ lastOp = NoOp

ConnNext ==
    \/ \E d \in Devices : ConnectToDeviceCall(d)
    \/ \E h \in 1..MaxHandles : ConnectToDeviceResume(h)
    \/ \E d \in Devices : DisconnectFromDeviceCall(d)
    \/ \E d \in Devices : DisconnectFromDeviceResume(d)
    \/ \E h \in 1..MaxHandles : TimerFires(h)
    \/ \E d \in Devices : ServiceGetFirewallRules(d)
    \/ \E h \in 1..MaxHandles : CallGetFirewallRules(h)

\* the class MikroTikConnection in the hands of any caller; the device of a
\* handle plays no part in its lifecycle, so every handle is of device 1
HandleNext ==
    \/ NewHandle(1)
    \/ \E h \in 1..MaxObjects, ok \in BOOLEAN : CallConnect(h, ok)
    \/ \E h \in 1..MaxObjects : CallDisconnect(h)
    \/ \E h \in 1..MaxObjects : TimerFires(h)
    \/ \E h \in 1..MaxObjects : CallGetFirewallRules(h)

(***************************************************************************)
(* Scheduler: the two setter routes are code of routes.ts; the scheduler   *)
(* service itself (setters, tick, polls) follows section 4.1 of the spec.  *)
(***************************************************************************)
IntervalBodies ==
    {Num(0), Num(PollingFloor - 1), Num(PollingFloor), Num(2 * PollingFloor), NotANumber}
CountBodies == {Num(n) : n \in 0..Cardinality(Devices)} \cup {NotANumber}

\* z.object({ interval: z.number().min(5000) }).parse(req.body) succeeds
IntervalSchemaNoFloor(b) == b.isNumber
IntervalSchemaOk(b) == b.isNumber /\ b.value >= PollingFloor

\* z.object({ count: z.number().min(1) }).parse(req.body) succeeds
CountSchemaOk(b) == b.isNumber /\ b.value >= MinConcurrent

\* router.post("/scheduler/polling-interval")
PostPollingInterval(b) ==
    /\ IF IntervalSchemaOk(b)
       THEN /\ pollingInterval' = b.value          \* setPollingInterval(interval)
            /\ intervalCalls' = intervalCalls \cup {b.value}
            /\ lastResponse' = [route |-> "polling-interval", body |-> b, status |-> 200]
       ELSE /\ lastResponse' = [route |-> "polling-interval", body |-> b, status |-> 400]
            /\ UNCHANGED <<pollingInterval, intervalCalls>>
    /\ UNCHANGED <<maxConcurrentDevices, pollState, lastOutcome, pollTimers, initCalls>>
    /\ UNCHANGED notSched

\* router.post("/scheduler/max-concurrent-devices")
PostMaxConcurrentDevices(b) ==
    /\ IF CountSchemaOk(b)
       THEN /\ maxConcurrentDevices' = b.value     \* setMaxConcurrentDevices(count)
            /\ lastResponse' = [route |-> "max-concurrent-devices", body |-> b, status |-> 200]
       ELSE /\ lastResponse' = [route |-> "max-concurrent-devices", body |-> b, status |-> 400]
            /\ UNCHANGED maxConcurrentDevices
    /\ UNCHANGED <<pollingInterval, pollState, lastOutcome, intervalCalls,
                   pollTimers, initCalls>>
    /\ UNCHANGED notSched

InFlight(ps) == {d \in Devices : ps[d] = "inflight"}

\* polls a tick may still start: the limit less the polls in flight
CapacityPerTick(limit, ps) == limit
Capacity(limit, ps) ==
    IF limit > Cardinality(InFlight(ps)) THEN limit - Cardinality(InFlight(ps)) ELSE 0

\* one scheduler tick: the due devices are admitted up to the limit, the
\* rest stay queued for the next tick
Tick(due) ==
    /\ pollTimers >= 1
    /\ due # {}
    /\ due \subseteq {d \in Devices : pollState[d] \in {"idle", "queued"}}
    /\ {d \in Devices : pollState[d] = "queued"} \subseteq due
    /\ \E admitted \in SUBSET due :
         /\ Cardinality(admitted) =
               IF Cardinality(due) <= Capacity(maxConcurrentDevices, pollState)
               THEN Cardinality(due)
               ELSE Capacity(maxConcurrentDevices, pollState)
         /\ pollState' = [d \in Devices |->
                            IF d \in admitted THEN "inflight"
                            ELSE IF d \in due THEN "queued"
                            ELSE pollState[d]]
    /\ UNCHANGED <<pollingInterval, maxConcurrentDevices, lastOutcome,
                   intervalCalls, lastResponse, pollTimers, initCalls>>
    /\ UNCHANGED notSched

\* the poll state of a device whose poll completed with the outcome
AfterPollDropsFailed(outcome) == IF outcome = "error" THEN "dropped" ELSE "idle"
AfterPoll(outcome) == "idle"

\* a device poll completes; a failure is recorded and stops nothing else
PollDone(d, outcome) ==
    /\ pollState[d] = "inflight"
    /\ pollState' = [pollState EXCEPT ![d] = AfterPoll(outcome)]
    /\ lastOutcome' = [lastOutcome EXCEPT ![d] = outcome]
    /\ UNCHANGED <<pollingInterval, maxConcurrentDevices, intervalCalls, lastResponse,
                   pollTimers, initCalls>>
    /\ UNCHANGED notSched

\* initialize(): the timers after the call; a running cycle is left alone
InitializeAgain(timers) == timers + 1
Initialize(timers) == IF timers = 0 THEN 1 ELSE timers

\* registerRoutes runs: schedulerService.initialize() at line 38
RegisterRoutes ==
    /\ initCalls < MaxInitCalls
    /\ initCalls' = initCalls + 1
    /\ pollTimers' = Initialize(pollTimers)
    /\ UNCHANGED <<pollingInterval, maxConcurrentDevices, pollState, lastOutcome,
                   intervalCalls, lastResponse>>
    /\ UNCHANGED notSched

\* getDevicePollingStatus(): per device its poll state, its last outcome
\* and whether its last poll left it connected
GetDevicePollingStatus(ps, lo) ==
    [d \in Devices |-> [state |-> ps[d], lastOutcome |-> lo[d],
                        isConnected |-> lo[d] = "ok",
                        error |-> lo[d] = "error"]]

\* router.get("/scheduler/device-status")
GetDeviceStatus ==
    /\ lastResponse' = [route |-> "device-status", body |-> NotANumber, status |-> 200,
                        report |-> GetDevicePollingStatus(pollState, lastOutcome)]
    /\ UNCHANGED <<pollingInterval, maxConcurrentDevices, pollState, lastOutcome,
                   intervalCalls, pollTimers, initCalls>>
    /\ UNCHANGED notSched

SchedStart ==
    /\ pollingInterval \in {PollingFloor, 2 * PollingFloor}
    /\ maxConcurrentDevices \in MinConcurrent..Cardinality(Devices)
    /\ pollState = [d \in Devices |-> "idle"]
    /\ lastOutcome = [d \in Devices |-> "none"]
    /\ intervalCalls = {}
    /\ lastResponse = [route |-> "none", body |-> NotANumber, status |-> 0]
    /\ pollTimers = 0
    /\ initCalls = 0

SchedNext ==
    \/ \E b \in IntervalBodies : PostPollingInterval(b)
    \/ \E b \in CountBodies : PostMaxConcurrentDevices(b)
    \/ \E due \in SUBSET Devices : Tick(due)
    \/ \E d \in Devices, o \in {"ok", "error"} : PollDone(d, o)
    \/ RegisterRoutes
    \/ GetDeviceStatus

\* the scheduler at rest, for the specifications of the other components
SchedRest ==
    /\ SchedStart
    /\ pollingInterval = PollingFloor
    /\ maxConcurrentDevices = MinConcurrent

(***************************************************************************)
(* IDS Adapter                                                             *)
(***************************************************************************)
\* ModelLoader.predict: "reject" or the resolved PredictionResult
PredictIgnoringExit(exitCode, output) ==
    IF ~output.valid THEN [ok |-> FALSE, isAnomaly |-> FALSE, probability |-> 0]
    ELSE [ok |-> TRUE, isAnomaly |-> output.is_anomaly, probability |-> output.probability]
Predict(exitCode, output) ==
    IF exitCode # 0 THEN [ok |-> FALSE, isAnomaly |-> FALSE, probability |-> 0]
    ELSE IF ~output.valid THEN [ok |-> FALSE, isAnomaly |-> FALSE, probability |-> 0]
    ELSE [ok |-> TRUE, isAnomaly |-> output.is_anomaly, probability |-> output.probability]

\* ModelLoader.initialize resumes after `await import('fs')`: lines 57-94
LoaderFindModel(found) ==
    /\ loaderPc = "import"
    /\ modelReady' = found
    /\ loaderPc' = IF found THEN "testing" ELSE "done"
    /\ UNCHANGED <<idsConstructed, isInitialized, broadcastExposed, features, alerts,
                   history, nAnalyses, lastCall>>
    /\ UNCHANGED <<notIds, inbox, sent>>

\* ModelLoader.initialize resumes after the test prediction: lines 96-103
LoaderTestDone(exitCode, output) ==
    /\ loaderPc = "testing"
    /\ modelReady' = IF Predict(exitCode, output).ok THEN modelReady ELSE FALSE
    /\ loaderPc' = "done"
    /\ UNCHANGED <<idsConstructed, isInitialized, broadcastExposed, features, alerts,
                   history, nAnalyses, lastCall>>
    /\ UNCHANGED <<notIds, inbox, sent>>

\* new IDSService(): the constructor runs initialize() up to its end
ConstructIds ==
    /\ ~idsConstructed
    /\ idsConstructed' = TRUE
    /\ isInitialized' = IF modelReady THEN TRUE ELSE isInitialized
    /\ UNCHANGED <<loaderPc, modelReady, broadcastExposed, features, alerts, history,
                   nAnalyses, lastCall>>
    /\ UNCHANGED <<notIds, inbox, sent>>

\* registerRoutes reaches line 1775
ExposeBroadcast ==
    /\ ~broadcastExposed
    /\ broadcastExposed' = TRUE
    /\ UNCHANGED <<loaderPc, modelReady, idsConstructed, isInitialized, features, alerts,
                   history, nAnalyses, lastCall>>
    /\ UNCHANGED <<notIds, inbox, sent>>

\* saveTrafficFeatures: the table after the call (an insert error is swallowed)
SaveTrafficFeatures(rows, sample, saveOk) ==
    IF saveOk THEN Append(rows, [id |-> Len(rows) + 1, flow |-> sample.flow]) ELSE rows

\* the rows the select of createAlert (lines 457-465) can return first
LatestFeature(rows, sample) == {i \in 1..Len(rows) : rows[i].flow = sample.flow}

\* IDSService.analyzeTraffic(trafficData) with the outcomes of its three
\* inserts and of the predictor process
AnalyzeTraffic(sample, saveOk, exitCode, output, alertOk, histOk) ==
    LET pred == Predict(exitCode, output)
        rows == SaveTrafficFeatures(features, sample, saveOk)
        call == [sample |-> sample, exitCode |-> exitCode, output |-> output,
                 saveOk |-> saveOk, alertOk |-> alertOk, histOk |-> histOk,
                 returned |-> "none"]
        alertId == Len(alerts) + 1
        frame == [type |-> "SECURITY_ALERT", id |-> alertId]
        afterAll == BroadcastToTopic(clients, readyState, inbox, "all_alerts", frame)
    IN
    /\ idsConstructed
    /\ nAnalyses < MaxAnalyses
    /\ nAnalyses' = nAnalyses + 1
    /\ IF ~isInitialized
       THEN /\ lastCall' = [call EXCEPT !.returned = "null"]     \* line 313
            /\ UNCHANGED <<features, alerts, history, inbox, sent>>
       ELSE IF ~pred.ok
       THEN /\ lastCall' = [call EXCEPT !.returned = "null"]     \* line 334
            /\ features' = rows
            /\ UNCHANGED <<alerts, history, inbox, sent>>
       ELSE /\ lastCall' = [call EXCEPT !.returned = "verdict"]  \* line 331
            /\ features' = rows
            /\ IF ~pred.isAnomaly
               THEN UNCHANGED <<alerts, history, inbox, sent>>
               ELSE IF ~alertOk                                   \* line 443 throws
               THEN UNCHANGED <<alerts, history, inbox, sent>>
               ELSE /\ alerts' = Append(alerts, [id |-> alertId,
                                                 deviceId |-> sample.deviceId,
                                                 flow |-> sample.flow])
                    /\ IF LatestFeature(rows, sample) = {} \/ ~histOk
                       THEN UNCHANGED <<history, inbox, sent>>    \* lines 467, 468
                       ELSE /\ \E f \in LatestFeature(rows, sample) :
                                 history' = Append(history,
                                     [trafficFeatureId |-> f, alertId |-> alertId,
                                      deviceId |-> sample.deviceId])
                            /\ IF broadcastExposed               \* lines 487-509
                               THEN /\ sent' = sent \o <<"all_alerts",
                                                    DeviceAlertsTopic(sample.deviceId)>>
                                    /\ inbox' = BroadcastToTopic(clients, readyState,
                                                    afterAll,
                                                    DeviceAlertsTopic(sample.deviceId),
                                                    frame)
                               ELSE UNCHANGED <<inbox, sent>>
    /\ UNCHANGED <<loaderPc, modelReady, idsConstructed, isInitialized, broadcastExposed>>
    /\ UNCHANGED notIds

IdsStart ==
    /\ loaderPc = "import"
    /\ modelReady = FALSE
    /\ idsConstructed = FALSE
    /\ isInitialized = FALSE
    /\ broadcastExposed = FALSE
    /\ features = <<>>
    /\ alerts = <<>>
    /\ history = <<>>
    /\ nAnalyses = 0
    /\ lastCall = NoCall

IdsNext ==
    \/ \E found \in BOOLEAN : LoaderFindModel(found)
    \/ \E x \in ExitCodes, o \in PredictorOutputs : LoaderTestDone(x, o)
    \/ ConstructIds
    \/ ExposeBroadcast
    \/ \E s \in Samples, saveOk \in BOOLEAN, x \in ExitCodes, o \in PredictorOutputs,
          alertOk \in BOOLEAN, histOk \in BOOLEAN :
          AnalyzeTraffic(s, saveOk, x, o, alertOk, histOk)

(***************************************************************************)
(* Device Registry: MemStorage and the device routes                       *)
(***************************************************************************)
\* insertDeviceSchema.parse(req.body) succeeds: the text columns are
\* required, port is an integer column with a default (optional)
InsertDeviceSchemaAny(b) == TRUE
InsertDeviceSchemaOk(b) ==
    /\ b.name # Missing /\ IsString(b.name)
    /\ b.port = Missing \/ IsNumber(b.port)

\* updateDeviceSchema.parse(req.body) succeeds: insertDeviceSchema.partial()
UpdateDeviceSchemaOk(b) ==
    /\ b.name = Missing \/ IsString(b.name)
    /\ b.port = Missing \/ IsNumber(b.port)

\* MemStorage.createDevice(insertDevice): the stored Device
CreateDevice(insertDevice) ==
    [name |-> insertDevice.name, port |-> insertDevice.port, updatedAt |-> 0]

\* MemStorage.updateDevice: { ...device, ...updates, updatedAt: new Date() }
UpdateDevice(device, updates) ==
    [name |-> IF updates.name = Missing THEN device.name ELSE updates.name,
     port |-> IF updates.port = Missing THEN device.port ELSE updates.port,
     updatedAt |-> device.updatedAt + 1]

\* MemStorage.deleteFirewallRulesByDeviceId(deviceId): the rules left
DeleteFirewallRulesByDeviceIdAll(rules, id) == {}
DeleteFirewallRulesByDeviceId(rules, id) == {r \in rules : r.deviceId # id}

Http(route, id, body, status) == [route |-> route, id |-> id, body |-> body, status |-> status]

\* router.post("/devices")
PostDevice(b) ==
    /\ deviceIdCounter \in Devices
    /\ IF InsertDeviceSchemaOk(b)
       THEN /\ devices' = [devices EXCEPT ![deviceIdCounter] = CreateDevice(b)]
            /\ deviceIdCounter' = deviceIdCounter + 1
            /\ lastHttp' = Http("POST /devices", deviceIdCounter, b, 201)
       ELSE /\ lastHttp' = Http("POST /devices", 0, b, 400)
            /\ UNCHANGED <<devices, deviceIdCounter>>
    /\ UNCHANGED <<firewallRules, firewallRuleIdCounter, returned>>
    /\ UNCHANGED notStorage

\* router.put("/devices/:id")
PutDevice(id, b) ==
    /\ IF devices[id] = NoDevice
       THEN /\ lastHttp' = Http("PUT /devices/:id", id, b, 404)
            /\ UNCHANGED devices
       ELSE IF ~UpdateDeviceSchemaOk(b)
       THEN /\ lastHttp' = Http("PUT /devices/:id", id, b, 400)
            /\ UNCHANGED devices
       ELSE /\ devices[id].updatedAt < MaxUpdates
            /\ devices' = [devices EXCEPT ![id] = UpdateDevice(@, b)]
            /\ lastHttp' = Http("PUT /devices/:id", id, b, 200)
    /\ UNCHANGED <<deviceIdCounter, firewallRules, firewallRuleIdCounter, returned>>
    /\ UNCHANGED notStorage

\* router.delete("/devices/:id"): storage.deleteDevice(deviceId) and no more
DeleteDevice(id) ==
    /\ firewallRules' = DeleteFirewallRulesByDeviceId(firewallRules, id)
    /\ devices' = [devices EXCEPT ![id] = NoDevice]
    /\ lastHttp' = Http("DELETE /devices/:id", id, NoDevice,
                        IF devices[id] = NoDevice THEN 404 ELSE 204)
    /\ UNCHANGED <<deviceIdCounter, firewallRuleIdCounter, returned>>
    /\ UNCHANGED notStorage

\* new MemStorage(): the constructor stores one sample device
StorageStart ==
    /\ devices = [d \in Devices |-> IF d = 1 THEN CreateDevice(SampleDevice) ELSE NoDevice]
    /\ deviceIdCounter = 2
    /\ firewallRules = {}
    /\ lastHttp = Http("none", 0, NoDevice, 0)
    /\ firewallRuleIdCounter = 1
    /\ returned = StorageCall("none", 0, "none")

(***************************************************************************)
(* MemStorage called directly: devices and firewall rules                  *)
(***************************************************************************)
\* what a caller passes: InsertFirewallRule and Partial<FirewallRule>
InsertRules == [deviceId : Devices, ruleId : RuleIds, action : {"accept"}]
RuleUpdates == [action : {Missing, "drop"}]
\* InsertDevice and Partial<Device> as the typed callers build them
InsertDevices == [name : {"Router-2"}, port : {Missing}]
DeviceUpdates == [name : {Missing, "Router-2"}, port : {Missing}]

\* MemStorage.getFirewallRuleByRuleId: find() over the Map's values, which
\* iterate in insertion order, that is by id; zero or one rule
GetFirewallRuleByRuleId(rules, deviceId, ruleId) ==
    LET found == {r \in rules : r.deviceId = deviceId /\ r.ruleId = ruleId}
    IN  IF found = {} THEN {}
        ELSE {CHOOSE r \in found : \A q \in found : r.id <= q.id}

\* MemStorage.createFirewallRule: the stored FirewallRule (of its columns
\* the model keeps id, deviceId, ruleId and action; the timestamps are left out)
CreateFirewallRule(insertRule, id) ==
    [id |-> id, deviceId |-> insertRule.deviceId, ruleId |-> insertRule.ruleId,
     action |-> insertRule.action]

\* MemStorage.updateFirewallRule: { ...rule, ...updates, updatedAt: new Date() }
UpdateFirewallRule(rule, updates) ==
    [rule EXCEPT !.action = IF updates.action = Missing THEN @ ELSE updates.action]

\* updateDevice: const device = this.devices.get(id); if (!device) return undefined
DeviceFoundAlways(devs, id) == TRUE
DeviceFound(devs, id) == devs[id] # NoDevice

\* storage.createDevice(insertDevice)
CreateDeviceCall(insertDevice) ==
    /\ deviceIdCounter \in Devices
    /\ devices' = [devices EXCEPT ![deviceIdCounter] = CreateDevice(insertDevice)]
    /\ deviceIdCounter' = deviceIdCounter + 1
    /\ returned' = StorageCall("createDevice", deviceIdCounter, "device")
    /\ UNCHANGED <<firewallRules, firewallRuleIdCounter, lastHttp>>
    /\ UNCHANGED notStorage

\* storage.updateDevice(id, updates)
UpdateDeviceCall(id, updates) ==
    /\ IF ~DeviceFound(devices, id)
       THEN /\ returned' = StorageCall("updateDevice", id, Undefined)
            /\ UNCHANGED devices
       ELSE /\ devices[id].updatedAt < MaxUpdates
            /\ devices' = [devices EXCEPT ![id] = UpdateDevice(@, updates)]
            /\ returned' = StorageCall("updateDevice", id, "device")
    /\ UNCHANGED <<deviceIdCounter, firewallRules, firewallRuleIdCounter, lastHttp>>
    /\ UNCHANGED notStorage

\* storage.deleteDevice(id)
DeleteDeviceCall(id) ==
    /\ firewallRules' = DeleteFirewallRulesByDeviceId(firewallRules, id)
    /\ devices' = [devices EXCEPT ![id] = NoDevice]
    /\ returned' = StorageCall("deleteDevice", id,
                               IF devices[id] = NoDevice THEN "false" ELSE "true")
    /\ UNCHANGED <<deviceIdCounter, firewallRuleIdCounter, lastHttp>>
    /\ UNCHANGED notStorage

\* storage.createFirewallRule(insertRule)
CreateFirewallRuleCall(insertRule) ==
    /\ firewallRuleIdCounter <= MaxRules
    /\ firewallRules' = firewallRules \cup
                            {CreateFirewallRule(insertRule, firewallRuleIdCounter)}
    /\ firewallRuleIdCounter' = firewallRuleIdCounter + 1
    /\ returned' = StorageCall("createFirewallRule", firewallRuleIdCounter, "rule")
    /\ UNCHANGED <<devices, deviceIdCounter, lastHttp>>
    /\ UNCHANGED notStorage

\* storage.updateFirewallRuleByRuleId(deviceId, ruleId, updates)
UpdateFirewallRuleByRuleIdCall(deviceId, ruleId, updates) ==
    LET found == GetFirewallRuleByRuleId(firewallRules, deviceId, ruleId)
    IN  /\ IF found = {}
           THEN /\ returned' = StorageCall("updateFirewallRuleByRuleId", 0, Undefined)
                /\ UNCHANGED firewallRules
           ELSE /\ firewallRules' = (firewallRules \ found) \cup
                                        {UpdateFirewallRule(r, updates) : r \in found}
                /\ \E r \in found :
                       returned' = StorageCall("updateFirewallRuleByRuleId", r.id, "rule")
        /\ UNCHANGED <<devices, deviceIdCounter, firewallRuleIdCounter, lastHttp>>
        /\ UNCHANGED notStorage

\* storage.deleteFirewallRule(id)
DeleteFirewallRuleCall(id) ==
    /\ firewallRules' = {r \in firewallRules : r.id # id}
    /\ returned' = StorageCall("deleteFirewallRule", id,
                               IF \E r \in firewallRules : r.id = id
                               THEN "true" ELSE "false")
    /\ UNCHANGED <<devices, deviceIdCounter, firewallRuleIdCounter, lastHttp>>
    /\ UNCHANGED notStorage

StorageNext ==
    \/ \E b \in InsertDevices : CreateDeviceCall(b)
    \/ \E id \in Devices, u \in DeviceUpdates : UpdateDeviceCall(id, u)
    \/ \E id \in Devices : DeleteDeviceCall(id)
    \/ \E r \in InsertRules : CreateFirewallRuleCall(r)
    \/ \E d \in Devices, ruleId \in RuleIds, u \in RuleUpdates :
          UpdateFirewallRuleByRuleIdCall(d, ruleId, u)
    \/ \E id \in 1..MaxRules : DeleteFirewallRuleCall(id)

DevicesNext ==
    \/ \E b \in DeviceBodies : PostDevice(b)
    \/ \E id \in Devices, b \in DeviceBodies : PutDevice(id, b)
    \/ \E id \in Devices : DeleteDevice(id)

(***************************************************************************)
(* Specifications: one per component, the other components at rest.        *)
(***************************************************************************)
Init ==
    /\ HubStart /\ ConnStart /\ SchedRest /\ IdsStart /\ StorageStart
    /\ fanOut = NoFanOut
    /\ handled = NoMessage
    /\ arp = NoArp

InitSched ==
    /\ HubStart /\ ConnStart /\ SchedStart /\ IdsStart /\ StorageStart
    /\ fanOut = NoFanOut
    /\ handled = NoMessage
    /\ arp = NoArp

SpecFanOut == Init /\ [][FanOutNext]_vars

SpecDevices == Init /\ [][DevicesNext]_vars

SpecStorage == Init /\ [][StorageNext]_vars

\* a caller connects to a device it has read from storage
ConnectStoredDevice(d) ==
    /\ devices[d] # NoDevice
    /\ ConnectToDeviceCall(d)

\* devices come and go while the Connection Manager serves them
LifecycleNext ==
    \/ \E b \in DeviceBodies : PostDevice(b)
    \/ \E id \in Devices : DeleteDevice(id)
    \/ \E d \in Devices : ConnectStoredDevice(d)
    \/ \E h \in 1..MaxHandles : ConnectToDeviceResume(h)
    \/ \E d \in Devices : DisconnectFromDeviceCall(d)
    \/ \E d \in Devices : DisconnectFromDeviceResume(d)
    \/ \E h \in 1..MaxHandles : TimerFires(h)

SpecLifecycle == Init /\ [][LifecycleNext]_vars

SpecSched == InitSched /\ [][SchedNext]_vars

SpecIds == Init /\ [][IdsNext]_vars

SpecHub == Init /\ [][HubNext]_vars

SpecSocket == Init /\ [][SocketNext]_vars

\* clients subscribe while the IDS Adapter analyses samples: the predictor
\* runs, it reports an anomaly and the three inserts succeed
Subscribes == {m \in ClientMessages :
                  m.json /\ m.action = "subscribe" /\ IsString(m.topic)}
Anomalies == {o \in PredictorOutputs : o.valid /\ o.is_anomaly}
AlertsNext ==
    \/ \E ws \in Sockets : OnConnection(ws)
    \/ \E ws \in Sockets, m \in Subscribes : OnMessage(ws, m)
    \/ LoaderFindModel(TRUE)
    \/ \E o \in Anomalies : LoaderTestDone(0, o)
    \/ ConstructIds
    \/ ExposeBroadcast
    \/ \E s \in Samples, o \in Anomalies : AnalyzeTraffic(s, TRUE, 0, o, TRUE, TRUE)

SpecAlerts == Init /\ [][AlertsNext]_vars

SpecConn == Init /\ [][ConnNext]_vars

SpecArp == Init /\ [][ArpNext]_vars

SpecHandle == Init /\ [][HandleNext]_vars

\* a timer of setInterval keeps firing while the process runs
SpecHandleLive == SpecHandle /\ \A h \in 1..MaxObjects : WF_vars(TimerFires(h))

(***************************************************************************)
(* Claims about the Connection Manager, checked under SpecConn.            *)
(***************************************************************************)
ConnectedHandles(d) ==
    {h \in 1..Len(handles) : handles[h].deviceId = d /\ handles[h].isConnected}

\* C1: for every device id, after any interleaving of connectToDevice and
\* disconnectFromDevice calls, at most one MikroTikConnection of the device
\* is in the connected state.
C1_AtMostOneConnectedHandle ==
    \A d \in Devices : Cardinality(ConnectedHandles(d)) <= 1

(***************************************************************************)
(* Claims about the Broadcast Hub, checked under SpecHub.                  *)
(***************************************************************************)
\* the frame the i-th broadcastToTopic call sent
Frame(i) == [type |-> sent[i], id |-> i]

InInbox(ws, f) == \E k \in 1..Len(inbox[ws]) : inbox[ws][k] = f

\* C2: broadcastToTopic(topic, message) sends the message to exactly the
\* clients that are in the registry, have an open transport and have the
\* topic in their topic set at the time of the call; every other client
\* receives nothing (so with no qualifying client nothing is sent).
C2_BroadcastExactRecipients ==
    [][\A t \in Topics :
         sent' = Append(sent, t) =>
           \A ws \in Sockets :
             inbox'[ws] =
               IF /\ HasClient(clients, ws)
                  /\ readyState[ws] = "OPEN"
                  /\ t \in TopicsOf(clients, ws)
               THEN Append(inbox[ws], [type |-> t, id |-> Len(sent) + 1])
               ELSE inbox[ws]]_vars

\* C2 witness: one broadcast reached a subscriber and skipped a registered
\* subscriber whose transport is closing.
C2_Witness ==
    \E i \in 1..Len(sent) : \E a, b \in Sockets :
        /\ InInbox(a, Frame(i))
        /\ HasClient(clients, b) /\ readyState[b] = "CLOSING"
        /\ sent[i] \in TopicsOf(clients, b)
        /\ ~InInbox(b, Frame(i))

\* C3: a client whose last request for topic T was not a subscribe receives
\* nothing from a broadcast to T, and no step other than the broadcast
\* itself ever delivers the broadcast's frame (no queueing, no replay).
C3_NoDeliveryAfterUnsubscribeNoReplay ==
    [][\A ws \in Sockets :
         /\ \A t \in Topics :
              (sent' = Append(sent, t) /\ requested[ws][t] # "subscribe")
                 => inbox'[ws] = inbox[ws]
         /\ Len(inbox'[ws]) >= Len(inbox[ws])
         /\ SubSeq(inbox'[ws], 1, Len(inbox[ws])) = inbox[ws]
         /\ \A k \in (Len(inbox[ws]) + 1)..Len(inbox'[ws]) :
              \/ inbox'[ws][k] = ConnectionEstablished
              \/ sent' # sent /\ inbox'[ws][k].id = Len(sent')]_vars

\* C3 witness: after a broadcast to T, one open client is subscribed to T
\* again without having received the frame, and another whose last request
\* was an unsubscribe has not received it either.
C3_Witness ==
    \E i \in 1..Len(sent) : \E a, b \in Sockets :
        /\ a # b
        /\ readyState[a] = "OPEN" /\ sent[i] \in TopicsOf(clients, a)
        /\ ~InInbox(a, Frame(i))
        /\ readyState[b] = "OPEN" /\ requested[b][sent[i]] = "unsubscribe"
        /\ ~InInbox(b, Frame(i))

\* C4: once the close event of a client has been handled the client has no
\* entry (and so no topic set) in the registry and no later step delivers
\* anything to it.
C4_ClosedClientDroppedAndSilent ==
    [][\A ws \in Sockets :
         readyState[ws] = "CLOSED" =>
            /\ ~HasClient(clients, ws)
            /\ inbox'[ws] = inbox[ws]]_vars

\* C4 witness: a closed client that had asked for topic T, and a broadcast
\* to T that another client received and the closed one did not.
C4_Witness ==
    \E i \in 1..Len(sent) : \E a, b \in Sockets :
        /\ readyState[a] = "CLOSED" /\ requested[a][sent[i]] = "subscribe"
        /\ ~InInbox(a, Frame(i))
        /\ InInbox(b, Frame(i))

\* C5: handling a subscribe for a topic whose last request was already a
\* subscribe, or an unsubscribe for a topic whose last request was an
\* unsubscribe or that was never requested, leaves the registry as it was;
\* and one broadcast adds at most one frame to a client's inbox.
C5_SubscribeUnsubscribeIdempotent ==
    [][/\ \/ clients' = clients
          \/ \A ws \in Sockets, m \in ClientMessages :
               ~( /\ m.json /\ IsString(m.topic)
                  /\ \/ m.action = "subscribe" /\ requested[ws][m.topic] = "subscribe"
                     \/ m.action = "unsubscribe"
                          /\ requested[ws][m.topic] \in {"unsubscribe", "none"}
                  /\ OnMessage(ws, m) )
       /\ \A ws \in Sockets : Len(inbox'[ws]) <= Len(inbox[ws]) + 1]_vars

\* C5 witness: a subscribe was handled twice in a row and the client then
\* received the broadcast to that topic exactly once.
C5_Witness ==
    /\ repeated = "subscribe"
    /\ \E i \in 1..Len(sent) : \E ws \in Sockets :
         /\ requested[ws][sent[i]] = "subscribe"
         /\ Cardinality({k \in 1..Len(inbox[ws]) : inbox[ws][k] = Frame(i)}) = 1

C7_IntervalBelowFloorRejected ==
    [][/\ \A b \in IntervalBodies :
            (PostPollingInterval(b) /\ ~(b.isNumber /\ b.value >= 5000))
               => /\ lastResponse'.status = 400
                  /\ pollingInterval' = pollingInterval
       /\ \A v \in intervalCalls' : v >= 5000]_vars

\* C7 witness: the interval was set to 10000 ms and a later request for
\* 4999 ms was answered 400 with the interval still 10000 ms.
C7_Witness ==
    /\ intervalCalls = {2 * PollingFloor}
    /\ pollingInterval = 2 * PollingFloor
    /\ lastResponse = [route |-> "polling-interval", body |-> Num(PollingFloor - 1),
                       status |-> 400]

(***************************************************************************)
(* Claims about the IDS Adapter, checked under SpecIds.                    *)
(***************************************************************************)
Count(seq, x) == Cardinality({i \in 1..Len(seq) : seq[i] = x})

\* the step is an analyzeTraffic call
IsAnalysis == nAnalyses' = nAnalyses + 1

\* C8: for every sample the predictor scores as an anomaly (the alert insert
\* succeeding and the hub being up), analyzeTraffic adds exactly one alert row
\* and makes exactly one broadcast on device_alerts_<deviceId> and exactly
\* one on all_alerts, whatever the outcome of the traffic-feature save and
\* of the detection-history insert.
C8_AnomalyOneAlertOneBroadcastPerTopic ==
    [][( /\ IsAnalysis
         /\ lastCall'.returned = "verdict" /\ lastCall'.output.is_anomaly
         /\ lastCall'.alertOk /\ broadcastExposed )
        => /\ Len(alerts') = Len(alerts) + 1
           /\ Count(sent', "all_alerts") = Count(sent, "all_alerts") + 1
           /\ Count(sent', DeviceAlertsTopic(lastCall'.sample.deviceId))
                = Count(sent, DeviceAlertsTopic(lastCall'.sample.deviceId)) + 1]_vars

\* C9: once the model loader has finished initialising successfully, every
\* analyzeTraffic call whose predictor run succeeds returns the verdict and
\* not null, in whatever order loader and service were constructed.
C9_VerdictOnceLoaderReady ==
    [][( /\ IsAnalysis
         /\ loaderPc = "done" /\ modelReady
         /\ lastCall'.exitCode = 0 /\ lastCall'.output.valid )
        => lastCall'.returned = "verdict"]_vars

\* C10: when the predictor fails for a sample (non-zero exit code, or output
\* that is not valid JSON) analyzeTraffic returns null and adds no alert
\* row, no detection-history row and no broadcast.
C10_PredictorFailureReturnsNull ==
    [][( /\ IsAnalysis
         /\ (lastCall'.exitCode # 0 \/ ~lastCall'.output.valid) )
        => /\ lastCall'.returned = "null"
           /\ alerts' = alerts
           /\ history' = history
           /\ sent' = sent
           /\ inbox' = inbox]_vars

\* C10 witness: an initialised service saved the features of a sample, the
\* predictor exited with code 1 after printing an anomaly verdict, and the
\* call returned null with no alert stored.
C10_Witness ==
    /\ isInitialized /\ broadcastExposed
    /\ lastCall.returned = "null"
    /\ lastCall.exitCode = 1 /\ lastCall.output.valid /\ lastCall.output.is_anomaly
    /\ lastCall.saveOk /\ lastCall.alertOk /\ lastCall.histOk
    /\ Len(features) > 0
    /\ alerts = <<>> /\ history = <<>> /\ sent = <<>>

\* the alert row and the detection-history row linked to it that a positive
\* verdict on the sample has stored
StoredVerdict(sample) ==
    \E a \in 1..Len(alerts) :
        /\ alerts[a].deviceId = sample.deviceId /\ alerts[a].flow = sample.flow
        /\ \E k \in 1..Len(history) : history[k].alertId = alerts[a].id

\* C11: analysing a sample with an anomaly verdict when a positive verdict on
\* the same sample is already stored (its alert row and the detection-history
\* row linked to it) leaves the alert rows and the detection-history rows as
\* they were: twice stores what once stores.
C11_PositiveVerdictStoredOnce ==
    [][( /\ IsAnalysis
         /\ lastCall'.returned = "verdict" /\ lastCall'.output.is_anomaly
         /\ StoredVerdict(lastCall'.sample) )
        => /\ alerts' = alerts
           /\ history' = history]_vars

(***************************************************************************)
(* Claims about MikroTikConnection, checked under SpecHandle.              *)
(***************************************************************************)
\* C12: disconnect() on a handle whose last call was already a disconnect()
\* leaves every field of the handle as it was and emits no event.
C12_DisconnectTwiceIsNoOp ==
    [][\A h \in 1..Len(handles) :
         (called[h] = "disconnect" /\ CallDisconnect(h))
            => /\ handles'[h] = handles[h]
               /\ lastOp'.events = <<>>]_vars

\* the last of connect() / disconnect() called on handle h, if it exists
LastCalled(h) == IF h <= Len(called) THEN called[h] ELSE "none"

\* C13: while the last call on a handle is a connect() that succeeded, the
\* handle is connected with a live timer and a rulesUpdate event follows;
\* a rulesUpdate event is emitted by a handle only while its last call is a
\* connect() that succeeded (never between a disconnect() and the next
\* connect()), for any sequence of connect() and disconnect() calls.
C13_RulesUpdateOnlyWhileConnected ==
    /\ [](\A h \in 1..Len(handles) :
            called[h] = "connect" => handles[h].isConnected /\ handles[h].timers >= 1)
    /\ [][\A k \in 1..Len(lastOp'.events) :
            lastOp'.events[k].event = "rulesUpdate"
               => called[lastOp'.events[k].handle] = "connect"]_vars
    /\ \A h \in 1..MaxObjects :
         (LastCalled(h) = "connect")
            ~> \/ lastOp = Op("timer", h, "none", <<Emit(h, "rulesUpdate")>>)
               \/ LastCalled(h) # "connect"

\* C13 witness: connect() was called twice and then disconnect(); the timer
\* the second connect() orphaned fired and no rulesUpdate was emitted.
C13_Witness ==
    \E h \in 1..Len(handles) :
        /\ called[h] = "disconnect"
        /\ handles[h].timers > 0
        /\ lastOp = Op("timer", h, "none", <<>>)

\* C14: a handle goes from disconnected to connected only in a connect()
\* call on it that succeeds, and from connected to disconnected only in a
\* disconnect() call on it or in a connect() call on it that fails and emits
\* 'error'; no other step (a timer, a getter, a call on another handle)
\* changes whether a handle is connected.
C14_ConnectedOnlyByExplicitConnect ==
    [][\A h \in 1..Len(handles) :
         /\ (~handles[h].isConnected /\ handles'[h].isConnected)
               => CallConnect(h, TRUE)
         /\ (handles[h].isConnected /\ ~handles'[h].isConnected)
               => \/ CallDisconnect(h)
                  \/ /\ CallConnect(h, FALSE)
                     /\ \E k \in 1..Len(lastOp'.events) :
                           lastOp'.events[k] = Emit(h, "error")]_vars

\* C14 witness: a connect() failed on a handle that an earlier connect() had
\* connected; the handle is disconnected, both timers still run.
C14_Witness ==
    \E h \in 1..Len(handles) :
        /\ lastOp = Op("connect", h, "false", <<Emit(h, "connected"), Emit(h, "error")>>)
        /\ ~handles[h].isConnected
        /\ handles[h].timers = 2

(***************************************************************************)
(* Claims about mikrotikService, checked under SpecConn.                   *)
(***************************************************************************)
\* C15: getFirewallRules() on a handle that is not connected throws;
\* mikrotikService.getFirewallRules(deviceId) throws when no handle is
\* registered for the device or the registered handle is not connected, and
\* in particular when it is called right after disconnectFromDevice(deviceId)
\* has returned.
C15_GetFirewallRulesFailsWhenNotConnected ==
    [][/\ \A h \in 1..Len(handles) :
            (CallGetFirewallRules(h) /\ ~handles[h].isConnected)
               => lastOp'.result = "throws"
       /\ \A d \in Devices :
            /\ ( /\ ServiceGetFirewallRules(d)
                 /\ \/ connections[d] = NoHandle
                    \/ ~handles[connections[d]].isConnected )
                  => lastOp'.result = "throws"
            /\ ( /\ ServiceGetFirewallRules(d)
                 /\ lastOp = Op("disconnectFromDevice", d, "returned", <<>>) )
                  => lastOp'.result = "throws"]_vars

\* C15 witness: the service was asked for the rules of a device whose
\* handle is still registered but already disconnected (disconnectFromDevice
\* has not resumed yet), and it threw.
C15_Witness ==
    \E d \in Devices :
        /\ lastOp = Op("service.getFirewallRules", d, "throws", <<>>)
        /\ connections[d] # NoHandle
        /\ ~handles[connections[d]].isConnected
        /\ pendingDisconnect[d] > 0

(***************************************************************************)
(* Claims about the device routes, checked under SpecDevices.              *)
(***************************************************************************)
\* a body POST /devices must reject: a required text field is absent or no
\* string, or port is no number
MalformedInsert(b) == b.name \in {Missing, NotAString} \/ b.port = NotAPort

\* a body PUT /devices/:id must reject: a field that is present has the
\* wrong type
MalformedUpdate(b) == b.name = NotAString \/ b.port = NotAPort

\* C20: a POST /devices or a PUT /devices/:id whose body fails validation is
\* answered with a 4xx status and leaves the stored devices, each stored
\* device and the id counter as they were.
C20_MalformedDeviceBodyChangesNothing ==
    [][/\ \A b \in DeviceBodies :
            (PostDevice(b) /\ MalformedInsert(b))
               => /\ lastHttp'.status \in 400..499
                  /\ devices' = devices
                  /\ deviceIdCounter' = deviceIdCounter
       /\ \A id \in Devices, b \in DeviceBodies :
            (PutDevice(id, b) /\ MalformedUpdate(b))
               => /\ lastHttp'.status \in 400..499
                  /\ devices' = devices
                  /\ deviceIdCounter' = deviceIdCounter]_vars

\* C20 witness: a PUT with a port that is no number was answered 400 for a
\* device an earlier PUT had renamed; the device still has that name and
\* its updatedAt.
C20_Witness ==
    /\ lastHttp.route = "PUT /devices/:id" /\ lastHttp.status = 400
    /\ lastHttp.body.port = NotAPort /\ lastHttp.body.name = "Router-2"
    /\ devices[1] = [name |-> "Router-2", port |-> "8728", updatedAt |-> 1]
    /\ lastHttp.id = 1

(***************************************************************************)
(* Claims about device deletion, checked under SpecLifecycle.              *)
(***************************************************************************)
\* C16: after DELETE /devices/:id has answered 204 no connection handle is
\* registered for that device id and no handle of the device has a running
\* timer.
C16_DeleteDeviceDestroysHandle ==
    [][\A id \in Devices :
         (DeleteDevice(id) /\ lastHttp'.status = 204)
            => /\ connections'[id] = NoHandle
               /\ \A h \in 1..Len(handles') :
                    handles'[h].deviceId = id => handles'[h].timers = 0]_vars

(***************************************************************************)
(* More claims about the scheduler, checked under SpecSched.               *)
(***************************************************************************)
\* C17: once initialize() has been called, however many times, exactly one
\* recurring polling timer exists, and a call after the first leaves the
\* timers as they were.
C17_InitializeIdempotent ==
    /\ [](initCalls >= 1 => pollTimers = 1)
    /\ [][(RegisterRoutes /\ initCalls >= 1) => pollTimers' = pollTimers]_vars

\* C17 witness: initialize() ran twice, one timer drives the cycle and a
\* device has been polled by it.
C17_Witness ==
    /\ initCalls = 2
    /\ pollTimers = 1
    /\ \E d \in Devices : lastOutcome[d] = "ok"

C19_FanOutReachesRecipientsAtStart ==
    [][FanOutReturn =>
         \A ws \in Sockets :
            Count(inbox'[ws], [type |-> fanOut.topic, id |-> Len(sent)])
               = IF ws \in fanOut.start THEN 1 ELSE 0]_vars

\* C19 witness: a broadcast reached both clients; since it returned one of
\* them has closed and the other has unsubscribed from the topic.
C19_Witness ==
    /\ ~fanOut.active /\ Len(sent) = 1
    /\ fanOut.start = Sockets
    /\ \E a, b \in Sockets :
         /\ readyState[a] = "CLOSED" /\ InInbox(a, Frame(1))
         /\ requested[b][sent[1]] = "unsubscribe" /\ InInbox(b, Frame(1))

(***************************************************************************)
(* Claims about MemStorage, checked under SpecStorage.                     *)
(***************************************************************************)
\* C21: when deleteDevice(id) returns, no stored firewall rule has
\* deviceId = id, and the stored rules of every other device are the ones
\* stored before the call.
C21_DeleteDeviceCascadesToItsRulesOnly ==
    [][\A id \in Devices :
         DeleteDeviceCall(id) =>
            /\ \A r \in firewallRules' : r.deviceId # id
            /\ {r \in firewallRules' : r.deviceId # id}
                  = {r \in firewallRules : r.deviceId # id}]_vars

\* C21 witness: deleteDevice removed a stored device that had a rule while
\* a rule of the other device stays stored.
C21_Witness ==
    /\ returned.method = "deleteDevice" /\ returned.result = "true"
    /\ firewallRuleIdCounter = 3
    /\ Cardinality(firewallRules) = 1
    /\ \A r \in firewallRules : r.deviceId # returned.id

\* C22: whatever storage operations have been applied, no two stored
\* firewall rules have the same (deviceId, ruleId) pair.
C22_OneRulePerDeviceAndRuleId ==
    \A r, q \in firewallRules :
        (r.deviceId = q.deviceId /\ r.ruleId = q.ruleId) => r = q

\* C25: updateDevice(id, ...) applied after deleteDevice(id) returns
\* undefined and leaves the stored devices as they were: the device is not
\* created again.
C25_UpdateAfterDeleteChangesNothing ==
    [][\A id \in Devices, u \in DeviceUpdates :
         (id < deviceIdCounter /\ devices[id] = NoDevice /\ UpdateDeviceCall(id, u))
            => (returned'.result = Undefined /\ devices' = devices)]_vars

\* C25 witness: updateDevice was called for a device that had been created
\* and deleted.
C25_Witness ==
    /\ returned = StorageCall("updateDevice", 1, Undefined)
    /\ devices[1] = NoDevice

(***************************************************************************)
(* Claims about the alerts of the IDS Adapter.                             *)
(***************************************************************************)
\* C23: every alert row the IDS Adapter has created has exactly one
\* detection-history row linked to it: after analyzeTraffic completes for an
\* anomalous sample either both rows exist or neither does.
C23_AlertHasOneHistoryRow ==
    \A a \in 1..Len(alerts) :
        Cardinality({k \in 1..Len(history) : history[k].alertId = alerts[a].id}) = 1

\* C24: one detected anomaly reaches each client at most once, whatever
\* topics the client is subscribed to (the device topic and the global topic
\* together included): an analyzeTraffic call adds at most one frame to the
\* inbox of each client.
C24_AlertDeliveredAtMostOncePerClient ==
    [][IsAnalysis => \A ws \in Sockets : Len(inbox'[ws]) <= Len(inbox[ws]) + 1]_vars

(***************************************************************************)
(* Claims about the 'message' handler, checked under SpecSocket.           *)
(***************************************************************************)
\* a message that is neither a subscribe nor an unsubscribe with a string
\* topic: invalid JSON, another action, or a topic that is not a string
UnknownShape(m) ==
    ~(m.json /\ m.action \in {"subscribe", "unsubscribe"} /\ IsString(m.topic))

\* C26: a client message of unknown shape (invalid JSON, an action other
\* than subscribe and unsubscribe, a topic that is not a string) is ignored:
\* it leaves the topic set of every client as it was and neither closes nor
\* removes the client.
C26_UnknownMessageIgnored ==
    [][\A ws \in Sockets, m \in ClientMessages :
         (UnknownShape(m) /\ OnMessageEvent(ws, m))
            => (clients' = clients /\ readyState' = readyState)]_vars

\* C26 witness: an open client with a subscription sent a subscribe whose
\* topic is not a string; it is still registered with its topics.
C26_Witness ==
    /\ handled.m.json /\ handled.m.action = "subscribe" /\ ~IsString(handled.m.topic)
    /\ handled.readyState = "OPEN" /\ readyState[handled.ws] = "OPEN"
    /\ TopicsOf(clients, handled.ws) # {}

\* C30: once 'close' has been handled for a client it stays absent from the
\* registry: a subscribe or unsubscribe from it handled after the close
\* neither adds it back nor creates a topic set for it; and a subscribe or
\* unsubscribe of one client never changes the topic set of another client.
C30_ClosedClientStaysAbsent ==
    /\ [](\A ws \in Sockets : readyState[ws] = "CLOSED" => ~HasClient(clients, ws))
    /\ [][\A ws \in Sockets, m \in ClientMessages :
            OnMessageEvent(ws, m)
               => \A o \in Sockets \ {ws} :
                     /\ HasClient(clients', o) = HasClient(clients, o)
                     /\ TopicsOf(clients', o) = TopicsOf(clients, o)]_vars

\* C30 witness: a subscribe of a closed client was handled while the other
\* client holds a subscription; the closed client is not registered.
C30_Witness ==
    /\ handled.readyState = "CLOSED"
    /\ handled.m.json /\ handled.m.action = "subscribe" /\ IsString(handled.m.topic)
    /\ ~HasClient(clients, handled.ws)
    /\ \E o \in Sockets \ {handled.ws} : TopicsOf(clients, o) # {}

(***************************************************************************)
(* Claims about the timers of MikroTikConnection, checked under SpecHandle.*)
(***************************************************************************)
\* C27: a MikroTikConnection has at most one live emission timer at any
\* time, connect() called twice without a disconnect() included, so that
\* rulesUpdate has a single 5-second cadence and disconnect() stops every
\* timer the handle started.
C27_AtMostOneLiveTimer ==
    \A h \in 1..Len(handles) : handles[h].timers <= 1

(***************************************************************************)
(* Claims about getDeviceArpTable, checked under SpecArp.                  *)
(***************************************************************************)
\* C28: getDeviceArpTable leaves a connection that existed before the call
\* intact: when it returns, the handle that was registered for the device
\* when the call started is still registered and still connected.
C28_ArpTableKeepsExistingConnection ==
    (arp.pc = "returned" /\ arp.before # NoHandle)
       => /\ connections[arp.deviceId] = arp.before
          /\ handles[arp.before].isConnected

\* C29: getDeviceArpTable releases every connection it opened: when it has
\* returned, with the entries or with [] after a failed read, the handle it
\* opened is registered for no device.
C29_ArpTableReleasesItsConnection ==
    (arp.pc = "returned" /\ arp.opened # NoHandle)
       => \A d \in Devices : connections[d] # arp.opened

=============================================================================
